---- MODULE Spec2Model ----
(***************************************************************************)
(* Crawl submission of firecrawl-simple: crawlController (POST /v1/crawl). *)
(*                                                                         *)
(* One invocation of crawlController is a sequence of awaited operations   *)
(* on the shared stores (the KV entries crawl:<id>, crawl:<id>:locks,      *)
(* crawl:<id>:jobs and the scrape queue).  The code between two awaits is  *)
(* synchronous, so one action is one awaited operation together with the   *)
(* synchronous code that follows it up to the next await.  pc names the    *)
(* awaited operation that is pending.                                      *)
(***************************************************************************)
EXTENDS Integers, Sequences, FiniteSets, TLC

VARIABLES
    req,         \* the request: body (url, includes, excludes, ignoreSitemap), auth.plan, the uuid of the crawl
    pc,          \* the awaited operation crawlController is suspended on
    status,      \* HTTP status answered (0: no answer yet)
    failedAt,    \* the awaited operation that threw ("" when none did)
    robots,      \* sc.robots of the local StoredCrawl ("absent" or "text")
    robotsThrew, \* getRobotsTxt threw and the catch block ran
    sitemap,     \* the local sitemap: Null or a sequence of sitemap URLs
    sitemapTried,\* tryGetSitemap was called
    jobPriority, \* the local jobPriority of the sitemap branch (0 before it is declared)
    crawls,      \* KV: crawl:<id> -> StoredCrawl
    locks,       \* KV: crawl:<id>:locks -> set of URLs
    jobSets,     \* KV: crawl:<id>:jobs -> set of job ids
    queue,       \* the scrape queue: jobs in the order they were added
    \* scraping one page (scrapeSingleUrl with scrapeWithPlaywright / scrapeWithFetch)
    sScraper,    \* the fetcher chosen for the page: "playwright" or "fetch"
    sPc,         \* "fetch": a request is due; "fetched": its result is in; "emitted"
    sRetries,    \* retries made so far
    sOutcome,    \* what the last request met (response, network error, ...)
    sResult,     \* what the fetcher returned (or that it threw) for sOutcome
    sDoc,        \* the Document emitted for the page
    \* one call of WebScraperDataProvider.convertUrlsToDocuments
    cIn,         \* its inputs: the number of urls, options.concurrentRequests, whether inProgress is given
    cPc,         \* "loop": at the loop head; "batch": in Promise.all; "returned"; "thrown"
    cI,          \* the loop variable i (0-based)
    cFetch,      \* per url (1-based): "pending", "inflight", "done" or "failed"
    cProcessed,  \* processedUrls
    cReports,    \* the progress reports delivered to inProgress, in order
    cResults,    \* results: per position the document stored there (NoDocument: null)
    \* one call of WebScraperDataProvider.getDocuments
    dIn,         \* mode, useCaching, links, cache, limit, maxCrawledLinks
    dPc,         \* "call" or "returned"
    dOut,        \* the urls fetched, and the documents returned
    \* the provider's pure functions applied to one input
    pIn,         \* a document url, includes, excludes, the seed and maxDepth
    pPc,         \* "call" or "returned"
    pOut,        \* the results
    \* one call of WebScraperDataProvider.processLinks
    lIn,         \* the crawler's entries (url, html) and whether their html is reused
    lPc,         \* "processLinks", "scrape" or "returned"
    lOut,        \* the links kept, and the calls of scrapeSingleUrl made (url, existingHTML)
    \* one run of runWebScraper
    rIn,         \* url, mode, and where an error is raised
    rPc,         \* "setOptions", "getDocuments", "awaitDocuments", "onSuccess" or "returned"
    rUrls,       \* provider.urls
    rCalls,      \* how often onSuccess, onError and job.moveToFailed were called
    rResult      \* what runWebScraper returned

crawlVars == <<req, pc, status, failedAt, robots, robotsThrew, sitemap, sitemapTried,
               jobPriority, crawls, locks, jobSets, queue>>
scrapeVars == <<sScraper, sPc, sRetries, sOutcome, sResult, sDoc>>
convertVars == <<cIn, cPc, cI, cFetch, cProcessed, cReports, cResults>>
docsVars == <<dIn, dPc, dOut>>
policyVars == <<pIn, pPc, pOut>>
linksVars == <<lIn, lPc, lOut>>
runVars == <<rIn, rPc, rUrls, rCalls, rResult>>

vars == <<crawlVars, scrapeVars, convertVars, docsVars, policyVars, linksVars, runVars>>

\* The variables of the other state machines, which a step of one leaves alone
notCrawl == <<scrapeVars, convertVars, docsVars, policyVars, linksVars, runVars>>
notScrape == <<crawlVars, convertVars, docsVars, policyVars, linksVars, runVars>>
notConvert == <<crawlVars, scrapeVars, docsVars, policyVars, linksVars, runVars>>
notDocs == <<crawlVars, scrapeVars, convertVars, policyVars, linksVars, runVars>>
notPolicy == <<crawlVars, scrapeVars, convertVars, docsVars, linksVars, runVars>>
notLinks == <<crawlVars, scrapeVars, convertVars, docsVars, policyVars, runVars>>
notRun == <<crawlVars, scrapeVars, convertVars, docsVars, policyVars, linksVars>>
\* What a step of runWebScraper that enters convertUrlsToDocuments leaves alone
notRunConvert == <<crawlVars, scrapeVars, docsVars, policyVars, linksVars>>

local == <<robots, robotsThrew, sitemap, sitemapTried, jobPriority>>
stores == <<crawls, locks, jobSets, queue>>

----------------------------------------------------------------------------
(* Bounds of the model *)

MaxSitemap == 2      \* longest small sitemap that is enumerated
MaxPatterns == 1     \* longest includes / excludes list
MaxDemotion == 1     \* largest demotion the priority policy adds to its base

----------------------------------------------------------------------------
(* URLs.  A URL "https://" + "www." * www + "ex.com/p<page>". *)

Url(w, p) == [www |-> w, page |-> p]

\* index.ts normalizeUrl: the first "//www." is replaced by "//"
normalizeUrl(u) == IF u.www > 0 THEN [u EXCEPT !.www = @ - 1] ELSE u

SeedUrls == {Url(0, 1), Url(1, 1)}
SitemapUrls == {Url(0, 1), Url(1, 1), Url(0, 2)}

\* What tryGetSitemap resolves to: null, or a list of sitemap entries
\* (an entry is modelled by its url, the only field crawlController reads).
Null == [isNull |-> TRUE, entries |-> <<>>]
Entries(s) == [isNull |-> FALSE, entries |-> s]

RECURSIVE SeqsUpTo(_, _)
SeqsUpTo(S, n) ==
    IF n = 0 THEN {<<>>}
    ELSE LET shorter == SeqsUpTo(S, n - 1)
         IN  shorter \cup {Append(s, x) : s \in {t \in shorter : Len(t) = n - 1}, x \in S}

\* Above this sitemap length the priority policy is consulted (part_000:156)
LargeSitemapThreshold == 1000

\* A sitemap of n distinct URLs
DistinctSitemap(n) == [i \in 1..n |-> Url(0, i)]

SitemapResults ==
    {Null}
    \cup {Entries(s) : s \in SeqsUpTo(SitemapUrls, MaxSitemap)}
    \cup {Entries(DistinctSitemap(LargeSitemapThreshold)),
          Entries(DistinctSitemap(LargeSitemapThreshold + 1))}

\* Regex sources: Compiles(p) is whether new RegExp(p) returns (TRUE) or throws
Patterns == {"^/docs", "("}
Compiles(p) == p # "("

\* crawlerOptions.includes / excludes: an array of patterns, or not an array
NotArray == [isArray |-> FALSE, items |-> <<>>]
PatternLists ==
    {NotArray} \cup {[isArray |-> TRUE, items |-> s] : s \in SeqsUpTo(Patterns, MaxPatterns)}

IgnoreSitemapValues == {"true", "false", "undefined"}
Plans == {"free", "growth"}
CrawlIds == {"c1", "c2"}     \* values uuidv4() may return for the crawl

NoCrawl == [stored |-> FALSE, originUrl |-> Url(0, 0), includes |-> NotArray,
            excludes |-> NotArray, ignoreSitemap |-> "undefined",
            plan |-> "", robots |-> "absent"]

Requests ==
    [id : CrawlIds, url : SeedUrls, includes : PatternLists, excludes : PatternLists,
     ignoreSitemap : IgnoreSitemapValues, plan : Plans]

----------------------------------------------------------------------------
(* Pure parts of crawlController *)

\* part_000:104-122: every pattern of includes and of excludes, when the option
\* is an array, is compiled; the first that throws answers 400
AllCompile(list) ==
    ~list.isArray \/ \A i \in 1..Len(list.items) : Compiles(list.items[i])

RegexesCompile_IncludesOnly(body) == AllCompile(body.includes)
RegexesCompile(body) == AllCompile(body.includes) /\ AllCompile(body.excludes)

\* part_000:124-131: the StoredCrawl built from the request
StoredCrawlOf(body, robotsTxt) ==
    [stored |-> TRUE, originUrl |-> body.url, includes |-> body.includes,
     excludes |-> body.excludes, ignoreSitemap |-> body.ignoreSitemap,
     plan |-> body.plan, robots |-> robotsTxt]

\* part_000:148: sc.crawlerOptions.ignoreSitemap ?? true
IgnoreSitemap_DefaultFalse(body) == body.ignoreSitemap = "true"
IgnoreSitemap(body) ==
    IF body.ignoreSitemap = "undefined" THEN TRUE ELSE body.ignoreSitemap = "true"

\* part_000:152: sitemap !== null && sitemap.length > 0
UseSitemapPath_NullCheckOnly(sm) == ~sm.isNull
UseSitemapPath(sm) == ~sm.isNull /\ Len(sm.entries) > 0

\* part_000:156: sitemap.length > 1000
IsLargeSitemap(sm) == Len(sm.entries) > LargeSitemapThreshold

DefaultJobPriority == 20     \* part_000:153
BasePriority == 21           \* part_000:161
SitemapJobOptsPriority == 20 \* part_000:184
SeedPriority == 15           \* part_000:214

\* uuidv4() for the jobs: the i-th sitemap job of crawl id gets <<id, i>>, its
\* seed job <<id, 0>> (distinct calls return distinct values)
JobUuid(id, i) == <<id, i>>

\* part_000:164-187: one job per sitemap entry
SitemapJobs_SeedOptions(id, sm) ==
    [i \in 1..Len(sm.entries) |->
        [jobId |-> JobUuid(id, i), url |-> sm.entries[i], mode |-> "single_urls",
         crawl_id |-> id, sitemapped |-> FALSE, priority |-> SeedPriority]]
SitemapJobs(id, sm) ==
    [i \in 1..Len(sm.entries) |->
        [jobId |-> JobUuid(id, i), url |-> sm.entries[i], mode |-> "single_urls",
         crawl_id |-> id, sitemapped |-> TRUE, priority |-> SitemapJobOptsPriority]]

\* part_000:200-218: the seed job handed to addScrapeJobRaw (no sitemapped field)
SeedJob(id, url) ==
    [jobId |-> JobUuid(id, 0), url |-> url, mode |-> "single_urls",
     crawl_id |-> id, sitemapped |-> FALSE, priority |-> SeedPriority]

\* The awaited operations of the two branches, in program order
SitemapPathOrder_EnqueueFirst == <<"addBulk", "lockURLs", "addCrawlJobs">>
SitemapPathOrder == <<"lockURLs", "addCrawlJobs", "addBulk">>        \* part_000:189-197
SeedPathOrder == <<"lockURL", "addScrapeJobRaw", "addCrawlJob">>     \* part_000:199-219

\* The operation awaited after the k-th of a branch; after the last one the
\* synchronous tail answers 200 (part_000:222-228)
After(order, k) == IF k < Len(order) THEN order[k + 1] ELSE "responded"

Position(order, op) == CHOOSE k \in 1..Len(order) : order[k] = op

\* part_000:152-198: the branch taken once the sitemap is known
BranchAfterSitemap(sm) ==
    IF UseSitemapPath(sm)
    THEN IF IsLargeSitemap(sm) THEN "getJobPriority" ELSE SitemapPathOrder[1]
    ELSE SeedPathOrder[1]

RangeOf(s) == {s[i] : i \in DOMAIN s}

----------------------------------------------------------------------------
(* Collaborators that are not part of crawlController *)

\* lib/job-priority getJobPriority: the base plus a bounded demotion that
\* depends on the tenant's load
getJobPriority(plan, load, basePriority) == basePriority + load

\* lib/crawl-redis lockURLs / lockURL: set-if-absent on crawl:<id>:locks
LockSetAdd(set, urls) == set \cup urls

\* services/queue-jobs addScrapeJobRaw(data, options, jobId, jobPriority) and
\* queue addBulk(jobs): enqueue with the given options
addScrapeJobRaw(q, job, jobPriorityArg) == Append(q, job)
addBulk(q, jobs) == q \o jobs

\* lib/crawl-redis addCrawlJob / addCrawlJobs: add to crawl:<id>:jobs
JobSetAdd(set, ids) == set \cup ids

SeedJobPriorityArg == 10     \* part_000:217, the last argument of addScrapeJobRaw

----------------------------------------------------------------------------
(* The state when the request reaches crawlController: the stores are empty, *)
(* or hold what an earlier seed-only submission, under another id, left.     *)

EarlierRequest(id) ==
    [id |-> id, url |-> Url(0, 1), includes |-> NotArray, excludes |-> NotArray,
     ignoreSitemap |-> "true", plan |-> "free"]

\* The other state machines, not running
ScrapeIdle ==
    /\ sScraper = "" /\ sPc = "idle" /\ sRetries = 0
    /\ sOutcome = <<>> /\ sResult = <<>> /\ sDoc = <<>>
ConvertIdle ==
    /\ cIn = <<>> /\ cPc = "idle" /\ cI = 0 /\ cFetch = <<>>
    /\ cProcessed = 0 /\ cReports = <<>> /\ cResults = <<>>
DocsIdle == dIn = <<>> /\ dPc = "idle" /\ dOut = <<>>
PolicyIdle == pIn = <<>> /\ pPc = "idle" /\ pOut = <<>>
LinksIdle == lIn = <<>> /\ lPc = "idle" /\ lOut = <<>>
RunIdle == rIn = <<>> /\ rPc = "idle" /\ rUrls = <<>> /\ rCalls = <<>> /\ rResult = <<>>

CrawlIdle ==
    /\ req = <<>> /\ pc = "idle" /\ status = 0 /\ failedAt = ""
    /\ robots = "absent" /\ robotsThrew = FALSE /\ sitemap = <<>>
    /\ sitemapTried = FALSE /\ jobPriority = 0
    /\ crawls = <<>> /\ locks = <<>> /\ jobSets = <<>> /\ queue = <<>>

Init ==
    /\ ScrapeIdle /\ ConvertIdle /\ DocsIdle /\ PolicyIdle /\ LinksIdle /\ RunIdle
    /\ req \in Requests
    /\ pc = "start"
    /\ status = 0
    /\ failedAt = ""
    /\ robots = "absent"
    /\ robotsThrew = FALSE
    /\ sitemap = Null
    /\ sitemapTried = FALSE
    /\ jobPriority = 0
    /\ \E earlier \in SUBSET (CrawlIds \ {req.id}) :
        /\ crawls = [c \in CrawlIds |->
                        IF c \in earlier THEN StoredCrawlOf(EarlierRequest(c), "text") ELSE NoCrawl]
        /\ locks = [c \in CrawlIds |-> IF c \in earlier THEN {EarlierRequest(c).url} ELSE {}]
        /\ jobSets = [c \in CrawlIds |-> IF c \in earlier THEN {JobUuid(c, 0)} ELSE {}]
        /\ queue = IF earlier = {} THEN <<>>
                   ELSE <<SeedJob(CHOOSE c \in earlier : TRUE, Url(0, 1))>>

----------------------------------------------------------------------------
(* crawlController, one action per awaited operation *)

Answer(nextPc) == IF nextPc = "responded" THEN 200 ELSE status

\* part_000:94-131: parse, allocate the id, compile the patterns
Validate ==
    /\ pc = "start"
    /\ IF RegexesCompile(req)
       THEN pc' = "getRobotsTxt" /\ status' = status
       ELSE pc' = "responded" /\ status' = 400
    /\ UNCHANGED <<notCrawl, req, failedAt, local, stores>>

\* part_000:133-143: robots.txt, best effort
GetRobotsTxt_Uncaught ==
    /\ pc = "getRobotsTxt"
    /\ \E threw \in BOOLEAN :
        /\ robotsThrew' = threw
        /\ robots' = IF threw THEN robots ELSE "text"
        /\ pc' = IF threw THEN "thrown" ELSE "saveCrawl"
        /\ status' = IF threw THEN 500 ELSE status
        /\ failedAt' = IF threw THEN "getRobotsTxt" ELSE failedAt
    /\ UNCHANGED <<notCrawl, req, sitemap, sitemapTried, jobPriority, stores>>
GetRobotsTxt ==
    /\ pc = "getRobotsTxt"
    /\ \E threw \in BOOLEAN :
        /\ robotsThrew' = threw
        /\ robots' = IF threw THEN robots ELSE "text"
    /\ pc' = "saveCrawl"
    /\ UNCHANGED <<notCrawl, req, status, failedAt, sitemap, sitemapTried, jobPriority, stores>>

\* part_000:145-150: persist the StoredCrawl, then decide whether to fetch the sitemap
SaveCrawl_NotPersisted ==
    /\ pc = "saveCrawl"
    /\ IF IgnoreSitemap(req)
       THEN pc' = BranchAfterSitemap(Null)
       ELSE pc' = "tryGetSitemap"
    /\ UNCHANGED <<notCrawl, req, status, failedAt, local, stores>>
SaveCrawl ==
    /\ pc = "saveCrawl"
    /\ crawls' = [crawls EXCEPT ![req.id] = StoredCrawlOf(req, robots)]
    /\ IF IgnoreSitemap(req)
       THEN pc' = BranchAfterSitemap(Null)
       ELSE pc' = "tryGetSitemap"
    /\ UNCHANGED <<notCrawl, req, status, failedAt, local, locks, jobSets, queue>>

\* part_000:150-156: the sitemap, and the branch it selects
TryGetSitemap ==
    /\ pc = "tryGetSitemap"
    /\ \E sm \in SitemapResults :
        /\ sitemap' = sm
        /\ jobPriority' = IF UseSitemapPath(sm) THEN DefaultJobPriority ELSE jobPriority
        /\ pc' = BranchAfterSitemap(sm)
    /\ sitemapTried' = TRUE
    /\ UNCHANGED <<notCrawl, req, status, failedAt, robots, robotsThrew, stores>>

\* part_000:158-162: the priority policy, for a large sitemap
GetJobPriority ==
    /\ pc = "getJobPriority"
    /\ \E load \in 0..MaxDemotion :
        jobPriority' = getJobPriority(req.plan, load, BasePriority)
    /\ pc' = SitemapPathOrder[1]
    /\ UNCHANGED <<notCrawl, req, status, failedAt, robots, robotsThrew, sitemap, sitemapTried, stores>>

\* part_000:189-192
LockURLs ==
    /\ pc = "lockURLs"
    /\ locks' = [locks EXCEPT ![req.id] =
                    LockSetAdd(@, {j.url : j \in RangeOf(SitemapJobs(req.id, sitemap))})]
    /\ pc' = After(SitemapPathOrder, Position(SitemapPathOrder, "lockURLs"))
    /\ status' = Answer(pc')
    /\ UNCHANGED <<notCrawl, req, failedAt, local, crawls, jobSets, queue>>

\* part_000:193-196
AddCrawlJobs ==
    /\ pc = "addCrawlJobs"
    /\ jobSets' = [jobSets EXCEPT ![req.id] =
                    JobSetAdd(@, {j.jobId : j \in RangeOf(SitemapJobs(req.id, sitemap))})]
    /\ pc' = After(SitemapPathOrder, Position(SitemapPathOrder, "addCrawlJobs"))
    /\ status' = Answer(pc')
    /\ UNCHANGED <<notCrawl, req, failedAt, local, crawls, locks, queue>>

\* part_000:197
AddBulk ==
    /\ pc = "addBulk"
    /\ queue' = addBulk(queue, SitemapJobs(req.id, sitemap))
    /\ pc' = After(SitemapPathOrder, Position(SitemapPathOrder, "addBulk"))
    /\ status' = Answer(pc')
    /\ UNCHANGED <<notCrawl, req, failedAt, local, crawls, locks, jobSets>>

\* part_000:199
LockURL ==
    /\ pc = "lockURL"
    /\ locks' = [locks EXCEPT ![req.id] = LockSetAdd(@, {req.url})]
    /\ pc' = After(SeedPathOrder, Position(SeedPathOrder, "lockURL"))
    /\ status' = Answer(pc')
    /\ UNCHANGED <<notCrawl, req, failedAt, local, crawls, jobSets, queue>>

\* part_000:200-218
AddScrapeJobRaw ==
    /\ pc = "addScrapeJobRaw"
    /\ queue' = addScrapeJobRaw(queue, SeedJob(req.id, req.url), SeedJobPriorityArg)
    /\ pc' = After(SeedPathOrder, Position(SeedPathOrder, "addScrapeJobRaw"))
    /\ status' = Answer(pc')
    /\ UNCHANGED <<notCrawl, req, failedAt, local, crawls, locks, jobSets>>

\* part_000:219: job.id is the jobId the seed job was added under
AddCrawlJob ==
    /\ pc = "addCrawlJob"
    /\ jobSets' = [jobSets EXCEPT ![req.id] = JobSetAdd(@, {SeedJob(req.id, req.url).jobId})]
    /\ pc' = After(SeedPathOrder, Position(SeedPathOrder, "addCrawlJob"))
    /\ status' = Answer(pc')
    /\ UNCHANGED <<notCrawl, req, failedAt, local, crawls, locks, queue>>

\* The awaited operations on the KV store, the queue and the priority policy
\* that no try block of crawlController encloses
InfraOps ==
    {"saveCrawl", "getJobPriority", "lockURLs", "addCrawlJobs", "addBulk",
     "lockURL", "addScrapeJobRaw", "addCrawlJob"}

\* One of them rejects: the exception leaves crawlController, nothing after the
\* await runs, and the ingress layer answers 5xx
Throw ==
    /\ pc \in InfraOps
    /\ failedAt' = pc
    /\ pc' = "thrown"
    /\ status' = 500
    /\ UNCHANGED <<notCrawl, req, local, stores>>

Next ==
    \/ Validate
    \/ GetRobotsTxt
    \/ SaveCrawl
    \/ TryGetSitemap
    \/ GetJobPriority
    \/ LockURLs
    \/ AddCrawlJobs
    \/ AddBulk
    \/ LockURL
    \/ AddScrapeJobRaw
    \/ AddCrawlJob
    \/ Throw

Spec == Init /\ [][Next]_vars

----------------------------------------------------------------------------
(* Properties of crawl submission *)

\* The jobs of crawl c in the queue, in queue order
JobsOf(c) == SelectSeq(queue, LAMBDA j : j.crawl_id = c)

Answered200 == pc = "responded" /\ status = 200

\* C1: every enqueued job's URL is in the lock set of its crawl, on the sitemap
\* path and on the single-seed path, in every reachable state.
C1_EnqueuedUrlIsLocked ==
    \A k \in DOMAIN queue : queue[k].url \in locks[queue[k].crawl_id]

\* The sitemap path has locked and enqueued two jobs while an earlier crawl's
\* seed job is in the queue too
C1_Witness ==
    /\ Answered200
    /\ Len(JobsOf(req.id)) = 2
    /\ Len(queue) = 3
    /\ \A k \in DOMAIN queue : queue[k].url \in locks[queue[k].crawl_id]

\* C2: for every crawl, no two enqueued jobs have the same normalized URL.
C2_NoTwoJobsShareNormalizedUrl ==
    \A c \in CrawlIds :
        LET js == JobsOf(c)
        IN  Cardinality({normalizeUrl(js[i].url) : i \in DOMAIN js}) = Len(js)

\* C3: every id in a crawl's job membership set corresponds to exactly one
\* enqueued job, and no job is enqueued twice, in every reachable state.
C3_JobSetMemberEnqueuedOnce ==
    /\ \A c \in CrawlIds : \A jid \in jobSets[c] :
            Cardinality({k \in DOMAIN queue : queue[k].jobId = jid /\ queue[k].crawl_id = c}) = 1
    /\ Cardinality({queue[k].jobId : k \in DOMAIN queue}) = Len(queue)

\* C4: when the sitemap yields more than 1000 URLs, every bulk-enqueued sitemap
\* job carries the priority the policy returned for basePriority 21, which is
\* at least 21.
C4_LargeSitemapPriorityFromPolicy ==
    (Answered200 /\ sitemapTried /\ Len(sitemap.entries) > 1000) =>
        \A k \in DOMAIN queue :
            queue[k].crawl_id = req.id =>
                queue[k].priority = jobPriority /\ queue[k].priority >= 21

C6_SmallSitemapBulkEnqueue ==
    (Answered200 /\ req.ignoreSitemap = "false" /\ sitemapTried /\ ~sitemap.isNull
        /\ Len(sitemap.entries) >= 1 /\ Len(sitemap.entries) <= 1000) =>
        LET js == JobsOf(req.id)
            n == Len(sitemap.entries)
        IN  /\ Len(js) = n
            /\ \A i \in 1..n :
                /\ js[i].url = sitemap.entries[i]
                /\ js[i].mode = "single_urls"
                /\ js[i].priority = 20
                /\ js[i].sitemapped
            /\ locks[req.id] = {sitemap.entries[i] : i \in 1..n}
            /\ jobSets[req.id] = {js[i].jobId : i \in 1..n}
            /\ Cardinality(jobSets[req.id]) = n

\* A sitemap of exactly 1000 URLs has been bulk-enqueued
C6_Witness ==
    /\ Answered200
    /\ sitemapTried
    /\ Len(sitemap.entries) = 1000
    /\ Len(JobsOf(req.id)) = 1000

SomePatternFails(body) ==
    \/ body.includes.isArray /\ \E i \in 1..Len(body.includes.items) : ~Compiles(body.includes.items[i])
    \/ body.excludes.isArray /\ \E i \in 1..Len(body.excludes.items) : ~Compiles(body.excludes.items[i])

\* C8: a submission with a pattern that does not compile is answered 400 by
\* its first step, and that step leaves the StoredCrawl store, the lock sets,
\* the job sets and the queue unchanged.
C8_BadRegexRejected ==
    [][(pc = "start" /\ SomePatternFails(req)) =>
            (pc' = "responded" /\ status' = 400 /\ UNCHANGED stores)]_vars

\* A bad excludes pattern has been answered 400 while the earlier crawl's
\* record, lock and job are in the stores, and nothing of this crawl is
C8_Witness ==
    /\ pc = "responded"
    /\ status = 400
    /\ req.excludes.isArray
    /\ Len(queue) = 1
    /\ ~crawls[req.id].stored
    /\ locks[req.id] = {}
    /\ jobSets[req.id] = {}

\* C9: when getRobotsTxt throws, the submission goes on: it is never answered
\* 400, a 500 comes from a later store or queue operation only, the StoredCrawl
\* is persisted with robots absent once saveCrawl has returned, and an answer
\* is 200 with at least one job of the crawl enqueued.
C9_RobotsFailureNonFatal ==
    robotsThrew =>
        /\ status # 400
        /\ status = 500 => failedAt \in InfraOps
        /\ (pc # "saveCrawl" /\ failedAt # "saveCrawl") =>
                crawls[req.id].stored /\ crawls[req.id].robots = "absent"
        /\ pc = "responded" => status = 200 /\ Len(JobsOf(req.id)) >= 1

\* getRobotsTxt threw and the submission answered 200 with its job enqueued
C9_Witness ==
    /\ robotsThrew
    /\ Answered200
    /\ crawls[req.id].stored
    /\ crawls[req.id].robots = "absent"
    /\ Len(JobsOf(req.id)) >= 1

\* C10: whenever a URL is in a crawl's lock set, a job id in its job set or a
\* job of it in the queue, the crawl's StoredCrawl exists; and when saveCrawl
\* fails nothing of the crawl is locked or enqueued and no 200 is answered.
C10_CrawlStoredBeforeLockOrEnqueue ==
    /\ \A c \in CrawlIds :
        (locks[c] # {} \/ jobSets[c] # {} \/ Len(JobsOf(c)) > 0) => crawls[c].stored
    /\ failedAt = "saveCrawl" =>
        /\ locks[req.id] = {}
        /\ jobSets[req.id] = {}
        /\ Len(JobsOf(req.id)) = 0
        /\ status # 200

\* The seed job is in the queue, before the membership write, and its crawl
\* record is stored
C10_Witness ==
    /\ pc = "addCrawlJob"
    /\ Len(JobsOf(req.id)) = 1
    /\ locks[req.id] # {}
    /\ crawls[req.id].stored
    /\ crawls[req.id].originUrl = req.url

----------------------------------------------------------------------------
(***************************************************************************)
(* The page fetchers: scrapeWithPlaywright (the rendering service, over    *)
(* axios.post) and scrapeWithFetch (axios.get), and the fetch of one page  *)
(* by scrapeSingleUrl.                                                     *)
(***************************************************************************)

\* Optional values: null, undefined, or a value
NullV == [tag |-> "null"]
UndefinedV == [tag |-> "undefined"]
Val(x) == [tag |-> "value", v |-> x]
IsSet(o) == o.tag = "value"

\* Response bodies: the raw text, whether JSON.parse accepts it, and the fields
\* of the parsed object
BodyPage ==
    [text |-> "{content: <html>page</html>, pageStatusCode: 200}", valid |-> TRUE,
     content |-> Val("<html>page</html>"), pageStatusCode |-> Val(200), pageError |-> UndefinedV]
BodyPageError ==
    [text |-> "{content: <html>gone</html>, pageStatusCode: 404, pageError: Not Found}", valid |-> TRUE,
     content |-> Val("<html>gone</html>"), pageStatusCode |-> Val(404), pageError |-> Val("Not Found")]
BodyNoContent ==
    [text |-> "{pageStatusCode: 200}", valid |-> TRUE,
     content |-> UndefinedV, pageStatusCode |-> Val(200), pageError |-> UndefinedV]
BodyNotJson ==
    [text |-> "<html>Bad Gateway</html>", valid |-> FALSE,
     content |-> UndefinedV, pageStatusCode |-> UndefinedV, pageError |-> UndefinedV]
Bodies == {BodyPage, BodyPageError, BodyNoContent, BodyNotJson}

Statuses == {200, 204, 404, 503}
StatusText(st) ==
    CASE st = 200 -> "OK" [] st = 204 -> "No Content" [] st = 404 -> "Not Found"
      [] OTHER -> "Service Unavailable"

\* axios: the default validateStatus resolves 2xx and rejects every other
\* status with an AxiosError that carries the response
AxiosResolves(st) == st >= 200 /\ st < 300
AxiosStatusMessage(st) ==
    CASE st = 404 -> "Request failed with status code 404"
      [] st = 503 -> "Request failed with status code 503"
      [] OTHER -> "Request failed"

\* What one request meets
ResponseOutcomes ==
    {[kind |-> "response", status |-> st, body |-> b,
      code |-> IF AxiosResolves(st) THEN "" ELSE "ERR_BAD_RESPONSE",
      message |-> IF AxiosResolves(st) THEN "" ELSE AxiosStatusMessage(st)] :
        st \in Statuses, b \in Bodies}
NetworkOutcomes ==
    {[kind |-> "networkError", status |-> 0, body |-> BodyNotJson,
      code |-> "ECONNABORTED", message |-> "timeout of 15000ms exceeded"],
     [kind |-> "networkError", status |-> 0, body |-> BodyNotJson,
      code |-> "ECONNRESET", message |-> "socket hang up"]}
\* generateRequestParams(url) throws, before any request is made
ParamsOutcomes ==
    {[kind |-> "paramsError", status |-> 0, body |-> BodyNotJson,
      code |-> c, message |-> "Invalid URL"] : c \in {"", "ECONNABORTED"}}

OutcomesFor(scraper) ==
    IF scraper = "playwright"
    THEN ResponseOutcomes \cup NetworkOutcomes \cup ParamsOutcomes
    ELSE ResponseOutcomes \cup NetworkOutcomes

\* The request is rejected by axios
AxiosRejects(o) ==
    o.kind = "networkError" \/ (o.kind = "response" /\ ~AxiosResolves(o.status))

FetcherResult(content, code, err) ==
    [threw |-> FALSE, content |-> content, pageStatusCode |-> code, pageError |-> err]
FetcherThrows ==
    [threw |-> TRUE, content |-> "", pageStatusCode |-> UndefinedV, pageError |-> UndefinedV]

\* playwright.ts:109-123 and fetch.ts:53-65: ECONNABORTED is reported as a
\* timeout, any other error by its message
CatchAll(o) ==
    FetcherResult("", NullV,
        IF o.code = "ECONNABORTED" THEN Val("Request timed out") ELSE Val(o.message))

\* playwright.ts:59-69: the catch around axios.post
CatchAxiosPost(o) ==
    FetcherResult("",
        IF o.kind = "response" /\ o.status # 0 THEN Val(o.status) ELSE NullV,
        Val(o.message))

\* playwright.ts:84-108: parse the 200 body
ParseRendered(body) ==
    IF body.valid
    THEN FetcherResult(IF IsSet(body.content) THEN body.content.v ELSE "",
                       body.pageStatusCode, body.pageError)
    ELSE FetcherResult("", NullV, Val("Unexpected token < in JSON at position 0"))

\* playwright.ts:14-128
scrapeWithPlaywright_NoOuterCatch(o) ==
    IF o.kind = "paramsError" THEN FetcherThrows
    ELSE IF AxiosRejects(o) THEN CatchAxiosPost(o)
    ELSE IF o.status # 200 THEN FetcherResult("", UndefinedV, UndefinedV)
    ELSE ParseRendered(o.body)
scrapeWithPlaywright_ReadsHtmlField(o) ==
    IF o.kind = "paramsError" THEN CatchAll(o)
    ELSE IF AxiosRejects(o) THEN CatchAxiosPost(o)
    ELSE IF o.status # 200 THEN FetcherResult("", UndefinedV, UndefinedV)
    ELSE [ParseRendered(o.body) EXCEPT !.content = ""]
scrapeWithPlaywright(o) ==
    IF o.kind = "paramsError" THEN CatchAll(o)
    ELSE IF AxiosRejects(o) THEN CatchAxiosPost(o)
    \* response.data is the raw text (transformResponse), so response.data?.pageError
    \* and response.data?.pageStatusCode are undefined
    ELSE IF o.status # 200 THEN FetcherResult("", UndefinedV, UndefinedV)
    ELSE ParseRendered(o.body)

\* fetch.ts:12-70
scrapeWithFetch(o) ==
    IF AxiosRejects(o) THEN CatchAll(o)
    ELSE IF o.status # 200 THEN FetcherResult("", Val(o.status), Val(StatusText(o.status)))
    ELSE FetcherResult(o.body.text, Val(o.status), NullV)

Fetcher(scraper, o) ==
    IF scraper = "playwright" THEN scrapeWithPlaywright(o) ELSE scrapeWithFetch(o)

\* scrapers/single_url scrapeSingleUrl: transient failures (no response, 5xx)
\* are retried up to the cap; then the Document is built from the fetcher's result
RetryCap == 3
Transient(o) == o.kind = "networkError" \/ (o.kind = "response" /\ o.status >= 500)
DocumentOf(r) ==
    [content |-> r.content, pageStatusCode |-> r.pageStatusCode, pageError |-> r.pageError]

InitScrape ==
    /\ CrawlIdle /\ ConvertIdle /\ DocsIdle /\ PolicyIdle /\ LinksIdle /\ RunIdle
    /\ sScraper \in {"playwright", "fetch"}
    /\ sPc = "fetch"
    /\ sRetries = 0
    /\ sOutcome = <<>>
    /\ sResult = <<>>
    /\ sDoc = <<>>

\* One request through the chosen fetcher
FetchPage ==
    /\ sPc = "fetch"
    /\ \E o \in OutcomesFor(sScraper) :
        /\ sOutcome' = o
        /\ sResult' = Fetcher(sScraper, o)
    /\ sPc' = "fetched"
    /\ UNCHANGED <<notScrape, sScraper, sRetries, sDoc>>

RetryPage ==
    /\ sPc = "fetched"
    /\ ~sResult.threw
    /\ Transient(sOutcome) /\ sRetries < RetryCap
    /\ sRetries' = sRetries + 1
    /\ sPc' = "fetch"
    /\ UNCHANGED <<notScrape, sScraper, sOutcome, sResult, sDoc>>

EmitDocument ==
    /\ sPc = "fetched"
    /\ ~sResult.threw
    /\ ~(Transient(sOutcome) /\ sRetries < RetryCap)
    /\ sDoc' = DocumentOf(sResult)
    /\ sPc' = "emitted"
    /\ UNCHANGED <<notScrape, sScraper, sRetries, sOutcome, sResult>>

NextScrape == FetchPage \/ RetryPage \/ EmitDocument

SpecScrape == InitScrape /\ [][NextScrape]_vars

Fetched == sPc \in {"fetched", "emitted"}

C12_TimeoutReportedAsTimedOut ==
    (Fetched /\ AxiosRejects(sOutcome)) =>
        sResult.pageError =
            IF sOutcome.code = "ECONNABORTED" THEN Val("Request timed out")
            ELSE Val(sOutcome.message)

\* C13: for every status other than 200 that the rendering service answers,
\* scrapeWithPlaywright returns empty content, a pageError that is set and the
\* upstream status as pageStatusCode.
C13_Non200Surfaced ==
    (Fetched /\ sScraper = "playwright" /\ sOutcome.kind = "response"
        /\ sOutcome.status # 200) =>
        /\ sResult.content = ""
        /\ IsSet(sResult.pageError)
        /\ sResult.pageStatusCode = Val(sOutcome.status)

\* The request got the page: a 200 and, for the rendering service, a body that parses
Succeeded(scraper, o) ==
    o.kind = "response" /\ o.status = 200 /\ (scraper = "fetch" \/ o.body.valid)

\* C14: for every outcome of the request both fetchers return a value with
\* content, pageStatusCode and pageError, never an exception, and the content
\* is the empty string whenever the request did not succeed.
C14_FetchersNeverThrow ==
    Fetched =>
        /\ ~sResult.threw
        /\ DOMAIN sResult = {"threw", "content", "pageStatusCode", "pageError"}
        /\ sResult.pageStatusCode.tag \in {"null", "undefined", "value"}
        /\ sResult.pageError.tag \in {"null", "undefined", "value"}
        /\ ~Succeeded(sScraper, sOutcome) => sResult.content = ""

\* generateRequestParams threw and scrapeWithPlaywright returned the error
C14_Witness ==
    /\ Fetched
    /\ sScraper = "playwright"
    /\ sOutcome.kind = "paramsError"
    /\ ~sResult.threw
    /\ sResult.content = ""
    /\ sResult.pageError = Val("Invalid URL")

----------------------------------------------------------------------------
(***************************************************************************)
(* WebScraperDataProvider.convertUrlsToDocuments: the urls are fetched in  *)
(* batches of concurrentRequests; the callbacks of one batch interleave at *)
(* their await of scrapeSingleUrl.  A url is named by its position, 1..n.  *)
(***************************************************************************)

MaxUrls == 4

\* index.ts:447: this.concurrentRequests = options.concurrentRequests ?? 20
DefaultConcurrentRequests == 20
ConcurrentRequestsOptions == {UndefinedV, Val(0), Val(1), Val(2)}
ConcurrentRequestsOf(opt) == IF IsSet(opt) THEN opt.v ELSE DefaultConcurrentRequests

ConvertInputs ==
    [n : 0..MaxUrls, concurrentRequests : ConcurrentRequestsOptions,
     hasInProgress : BOOLEAN, returnOnlyUrls : BOOLEAN]

concurrentRequests == ConcurrentRequestsOf(cIn.concurrentRequests)
UrlIndexes == 1..cIn.n

\* index.ts:44: urls.slice(i, i + this.concurrentRequests), as positions
BatchUrls_OneTooMany(i, k, n) == {u \in 1..n : i < u /\ u <= i + k + 1}
BatchUrls(i, k, n) == {u \in 1..n : i < u /\ u <= i + k}

\* index.ts:60-66: the progress report of one completed page
Progress_UrlPosition(processedUrls, totalUrls, u) ==
    [current |-> u, total |-> totalUrls, status |-> "SCRAPING", currentDocumentUrl |-> u]
Progress(processedUrls, totalUrls, u) ==
    [current |-> processedUrls, total |-> totalUrls, status |-> "SCRAPING",
     currentDocumentUrl |-> u]

\* index.ts:227-232: the one report of returnOnlyUrlsResponse
CompletedProgress(n) ==
    [current |-> n, total |-> n, status |-> "COMPLETED", currentDocumentUrl |-> 1]

NoDocument == [isNull |-> TRUE, sourceURL |-> 0]
DocumentFor(u) == [isNull |-> FALSE, sourceURL |-> u]

InitConvert ==
    /\ CrawlIdle /\ ScrapeIdle /\ DocsIdle /\ PolicyIdle /\ LinksIdle /\ RunIdle
    /\ cIn \in ConvertInputs
    /\ cPc = IF cIn.returnOnlyUrls THEN "onlyUrls" ELSE "loop"
    /\ cI = 0
    /\ cFetch = [u \in 1..cIn.n |-> "pending"]
    /\ cProcessed = 0
    /\ cReports = <<>>
    /\ cResults = [u \in 1..cIn.n |-> NoDocument]

\* index.ts:43-46: the loop test holds; every callback of the batch runs up to
\* its await of scrapeSingleUrl
StartBatch ==
    /\ cPc = "loop"
    /\ cI < cIn.n
    /\ cFetch' = [u \in UrlIndexes |->
                    IF u \in BatchUrls(cI, concurrentRequests, cIn.n) THEN "inflight"
                    ELSE cFetch[u]]
    /\ cPc' = "batch"
    /\ UNCHANGED <<notConvert, cIn, cI, cProcessed, cReports, cResults>>

\* index.ts:50-69: scrapeSingleUrl of one url resolves
CompleteFetch_StoresInCompletionOrder(u) ==
    /\ cFetch[u] = "inflight"
    /\ cProcessed' = cProcessed + 1
    /\ cReports' = IF cIn.hasInProgress
                   THEN Append(cReports, Progress(cProcessed + 1, cIn.n, u))
                   ELSE cReports
    /\ cResults' = [cResults EXCEPT ![cProcessed + 1] = DocumentFor(u)]
    /\ cFetch' = [cFetch EXCEPT ![u] = "done"]
    /\ UNCHANGED <<notConvert, cIn, cPc, cI>>
CompleteFetch(u) ==
    /\ cFetch[u] = "inflight"
    /\ cProcessed' = cProcessed + 1
    /\ cReports' = IF cIn.hasInProgress
                   THEN Append(cReports, Progress(cProcessed + 1, cIn.n, u))
                   ELSE cReports
    /\ cResults' = [cResults EXCEPT ![u] = DocumentFor(u)]
    /\ cFetch' = [cFetch EXCEPT ![u] = "done"]
    /\ UNCHANGED <<notConvert, cIn, cPc, cI>>

\* index.ts:45-57: scrapeSingleUrl of one url rejects; Promise.all rejects and
\* convertUrlsToDocuments throws, while the other callbacks of the batch go on
RejectFetch(u) ==
    /\ cFetch[u] = "inflight"
    /\ cFetch' = [cFetch EXCEPT ![u] = "failed"]
    /\ cPc' = "thrown"
    /\ UNCHANGED <<notConvert, cIn, cI, cProcessed, cReports, cResults>>

\* index.ts:43,45: Promise.all resolves; i += this.concurrentRequests
FinishBatch ==
    /\ cPc = "batch"
    /\ \A u \in UrlIndexes : cFetch[u] # "inflight"
    /\ cI' = cI + concurrentRequests
    /\ cPc' = "loop"
    /\ UNCHANGED <<notConvert, cIn, cFetch, cProcessed, cReports, cResults>>

\* index.ts:43,73: the loop test fails
ReturnDocuments ==
    /\ cPc = "loop"
    /\ cI >= cIn.n
    /\ cPc' = "returned"
    /\ UNCHANGED <<notConvert, cIn, cI, cFetch, cProcessed, cReports, cResults>>

\* index.ts:223-239
ReturnOnlyUrlsResponse ==
    /\ cPc = "onlyUrls"
    /\ cReports' = IF cIn.hasInProgress THEN <<CompletedProgress(cIn.n)>> ELSE cReports
    /\ cResults' = [u \in UrlIndexes |-> DocumentFor(u)]
    /\ cPc' = "returned"
    /\ UNCHANGED <<notConvert, cIn, cI, cFetch, cProcessed>>

NextConvert ==
    \/ StartBatch
    \/ \E u \in UrlIndexes : CompleteFetch(u)
    \/ \E u \in UrlIndexes : RejectFetch(u)
    \/ FinishBatch
    \/ ReturnDocuments
    \/ ReturnOnlyUrlsResponse

SpecConvert == InitConvert /\ [][NextConvert]_vars

InFlight == {u \in UrlIndexes : cFetch[u] = "inflight"}
Started == {u \in UrlIndexes : cFetch[u] # "pending"}
\* The batch a url belongs to (concurrentRequests > 0 whenever a url has started)
BatchIndex(u) == (u - 1) \div concurrentRequests

\* C15: at no time are more than concurrentRequests fetches (20 when the
\* option is not given) in flight, and a fetch has started only when every
\* fetch of every earlier batch has completed.
C15_BatchesBoundConcurrency ==
    /\ Cardinality(InFlight) <= concurrentRequests
    /\ ~IsSet(cIn.concurrentRequests) => Cardinality(InFlight) <= 20
    /\ \A u \in Started : \A v \in UrlIndexes :
        BatchIndex(v) < BatchIndex(u) => cFetch[v] = "done"

\* The second batch of two is in flight, the first batch of two is done
C15_Witness ==
    /\ cIn.n = 4
    /\ cIn.concurrentRequests = Val(2)
    /\ InFlight = {3, 4}
    /\ cFetch[1] = "done" /\ cFetch[2] = "done"

----------------------------------------------------------------------------
(***************************************************************************)
(* WebScraperDataProvider.getDocuments: the documents returned in each     *)
(* mode, with and without the cache.  includes and excludes are empty and  *)
(* the depth bound is not reached here, so the two filters of              *)
(* processDocumentsWithCache keep every document.                          *)
(* No link here is a .pdf/.doc/.docx link; those are the subject of        *)
(* SpecLinks.                                                              *)
(***************************************************************************)

MaxLinks == 2

DocUrls == {Url(0, p) : p \in 1..MaxLinks} \cup {Url(1, 1)}
DistinctSeqs == {s \in SeqsUpTo(DocUrls, MaxLinks) : \A i, j \in DOMAIN s : s[i] = s[j] => i = j}

Modes == {"crawl", "single_urls", "sitemap"}
Limits == 1..2

DocsInputs ==
    [mode : Modes, useCaching : BOOLEAN, returnOnlyUrls : BOOLEAN,
     urls : {<<Url(0, 1)>>, <<Url(0, 1), Url(0, 2)>>},
     limit : Limits, maxCrawledLinks : Limits]

Min(a, b) == IF a <= b THEN a ELSE b

\* documents.splice(0, this.limit) returns the first limit documents
Splice(documents, limit) == SubSeq(documents, 1, Min(limit, Len(documents)))

\* crawler.start: the crawler stops discovering at min(limit, maxCrawledLinks) links
CrawlerStart(limit, maxCrawledLinks) ==
    {s \in DistinctSeqs : Len(s) <= Min(limit, maxCrawledLinks)}

\* getLinksFromSitemap, then cleanIrrelevantPath: whatever the sitemap lists
SitemapLinks == DistinctSeqs

\* getCachedDocuments(urls.slice(0, limit)): the cached documents of the urls
\* and of their cached children
CachedDocuments == DistinctSeqs

\* index.ts:315-331
RECURSIVE mergeNewDocuments(_, _)
mergeNewDocuments(existingDocuments, newDocuments) ==
    IF newDocuments = <<>> THEN existingDocuments
    ELSE LET doc == Head(newDocuments)
             known == \E i \in DOMAIN existingDocuments :
                        normalizeUrl(existingDocuments[i]) = normalizeUrl(doc)
         IN  mergeNewDocuments(
                IF known THEN existingDocuments ELSE Append(existingDocuments, doc),
                Tail(newDocuments))

InitDocs ==
    /\ CrawlIdle /\ ScrapeIdle /\ ConvertIdle /\ PolicyIdle /\ LinksIdle /\ RunIdle
    /\ dIn \in DocsInputs
    /\ dPc = "getDocuments"
    /\ dOut = [cached |-> <<>>, links |-> <<>>, documents |-> <<>>]

\* index.ts:76-86
GetDocuments ==
    /\ dPc = "getDocuments"
    /\ dPc' = IF dIn.useCaching THEN "cache" ELSE "mode"
    /\ UNCHANGED <<notDocs, dIn, dOut>>

\* index.ts:299-306: with fewer cached documents than limit, the documents are
\* fetched as without the cache
GetCachedDocuments ==
    /\ dPc = "cache"
    /\ \E c \in CachedDocuments :
        /\ dOut' = [dOut EXCEPT !.cached = c]
        /\ dPc' = IF Len(c) < dIn.limit THEN "mode" ELSE "merge"
    /\ UNCHANGED <<notDocs, dIn>>

\* index.ts:171-183, 203, 212-213
GetLinks ==
    /\ dPc = "mode"
    /\ \E l \in (CASE dIn.mode = "crawl" -> CrawlerStart(dIn.limit, dIn.maxCrawledLinks)
                   [] dIn.mode = "sitemap" -> SitemapLinks
                   [] OTHER -> {dIn.urls}) :
        dOut' = [dOut EXCEPT !.links = l]
    /\ dPc' = "links"
    /\ UNCHANGED <<notDocs, dIn>>

WithoutCacheReturns == IF dIn.useCaching THEN "merge" ELSE "returned"
OnlyUrls == dIn.returnOnlyUrls /\ dIn.mode # "single_urls"

\* index.ts:185-187, 215-217: one document per link, no limit applied
ReturnOnlyUrls ==
    /\ dPc = "links"
    /\ OnlyUrls
    /\ dOut' = [dOut EXCEPT !.documents = dOut.links]
    /\ dPc' = WithoutCacheReturns
    /\ UNCHANGED <<notDocs, dIn>>

\* index.ts:189-197, 205-206, 219-220: processLinks, then
\* cacheAndFinalizeDocuments except in single_urls mode
ProcessLinks ==
    /\ dPc = "links"
    /\ ~OnlyUrls
    /\ dOut' = [dOut EXCEPT !.documents =
                    IF dIn.mode = "single_urls" THEN dOut.links
                    ELSE Splice(dOut.links, dIn.limit)]
    /\ dPc' = WithoutCacheReturns
    /\ UNCHANGED <<notDocs, dIn>>

\* index.ts:307-312
FinalizeWithCache ==
    /\ dPc = "merge"
    /\ dOut' = [dOut EXCEPT !.documents =
                    Splice(mergeNewDocuments(dOut.cached, dOut.documents), dIn.limit)]
    /\ dPc' = "returned"
    /\ UNCHANGED <<notDocs, dIn>>

NextDocs ==
    \/ GetDocuments
    \/ GetCachedDocuments
    \/ GetLinks
    \/ ReturnOnlyUrls
    \/ ProcessLinks
    \/ FinalizeWithCache

SpecDocs == InitDocs /\ [][NextDocs]_vars

\* C17: in every mode (crawl, sitemap, single_urls, with or without the
\* cache) getDocuments returns at most min(limit, maxCrawledLinks) documents.
C17_DocumentsWithinLimits ==
    dPc = "returned" => Len(dOut.documents) <= Min(dIn.limit, dIn.maxCrawledLinks)

----------------------------------------------------------------------------
(***************************************************************************)
(* The URL policy functions of WebScraperDataProvider, applied to one      *)
(* document: filterDocsExcludeInclude, filterDepth and normalizeUrl.  A    *)
(* URL here is "https://" + "www." * www + "ex.com/" + path, the path a    *)
(* list of segments.                                                       *)
(***************************************************************************)

MaxPath == 2              \* longest path, in segments
MaxFilterPatterns == 2    \* longest includes / excludes list given to the filter
MaxWww == 2               \* most "www." prefixes of a host

Segments == {"docs", "private", "blog"}
Paths == SeqsUpTo(Segments, MaxPath)
PathUrl(w, path) == [www |-> w, path |-> path]

FilterPatterns == {"", "^/docs", "/private"}
FilterPatternLists == SeqsUpTo(FilterPatterns, MaxFilterPatterns)

\* new RegExp(pattern).test(url.pathname)
RegExpTest(pattern, path) ==
    CASE pattern = "" -> TRUE
      [] pattern = "^/docs" -> Len(path) > 0 /\ path[1] = "docs"
      [] OTHER -> \E i \in DOMAIN path : path[i] = "private"

\* index.ts:333-367, for one document
filterDocsExcludeInclude(path, includes, excludes) ==
    IF /\ Len(excludes) > 0 /\ excludes[1] # ""
       /\ \E i \in DOMAIN excludes : RegExpTest(excludes[i], path)
    THEN FALSE
    ELSE IF Len(includes) > 0 /\ includes[1] # ""
         THEN \E i \in DOMAIN includes : RegExpTest(includes[i], path)
         ELSE TRUE

\* utils/maxDepthUtils
getURLDepth(url) == Len(url.path)
getAdjustedMaxDepth(seed, maxDepth) == getURLDepth(seed) + maxDepth

\* index.ts:560-565, for one document
filterDepth(url, maxCrawledDepth) == getURLDepth(url) <= maxCrawledDepth

ConfiguredDepths == 0..MaxPath

PolicyInput(fn, url, includes, excludes, seed, maxDepth) ==
    [fn |-> fn, url |-> url, includes |-> includes, excludes |-> excludes,
     seed |-> seed, maxCrawledDepth |-> maxDepth]

InitPolicy ==
    /\ CrawlIdle /\ ScrapeIdle /\ ConvertIdle /\ DocsIdle /\ LinksIdle /\ RunIdle
    /\ \/ \E p \in Paths, i \in FilterPatternLists, e \in FilterPatternLists :
            pIn = PolicyInput("filterDocsExcludeInclude", PathUrl(0, p), i, e,
                              PathUrl(0, <<>>), 0)
       \/ \E p \in Paths, q \in Paths, d \in ConfiguredDepths :
            pIn = PolicyInput("filterDepth", PathUrl(0, p), <<>>, <<>>, PathUrl(0, q), d)
       \/ \E w \in 0..MaxWww, p \in Paths :
            pIn = PolicyInput("normalizeUrl", PathUrl(w, p), <<>>, <<>>, PathUrl(0, <<>>), 0)
    /\ pPc = "input"
    /\ pOut = [kept |-> TRUE, url |-> pIn.url]

FilterDocsExcludeInclude ==
    /\ pPc = "input" /\ pIn.fn = "filterDocsExcludeInclude"
    /\ pOut' = [pOut EXCEPT !.kept =
                    filterDocsExcludeInclude(pIn.url.path, pIn.includes, pIn.excludes)]
    /\ pPc' = "filterDocsExcludeInclude"
    /\ UNCHANGED <<notPolicy, pIn>>

FilterDepth ==
    /\ pPc = "input" /\ pIn.fn = "filterDepth"
    /\ pOut' = [pOut EXCEPT !.kept = filterDepth(pIn.url, pIn.maxCrawledDepth)]
    /\ pPc' = "filterDepth"
    /\ UNCHANGED <<notPolicy, pIn>>

NormalizeUrl ==
    /\ pPc = "input" /\ pIn.fn = "normalizeUrl"
    /\ pOut' = [pOut EXCEPT !.url = normalizeUrl(pIn.url)]
    /\ pPc' = "normalizeUrl"
    /\ UNCHANGED <<notPolicy, pIn>>

\* normalizeUrl applied to its own result
NormalizeUrlAgain ==
    /\ pPc = "normalizeUrl"
    /\ pOut' = [pOut EXCEPT !.url = normalizeUrl(pOut.url)]
    /\ pPc' = "normalizeUrl twice"
    /\ UNCHANGED <<notPolicy, pIn>>

NextPolicy ==
    \/ FilterDocsExcludeInclude
    \/ FilterDepth
    \/ NormalizeUrl
    \/ NormalizeUrlAgain

SpecPolicy == InitPolicy /\ [][NextPolicy]_vars

\* C18: the filter keeps a document exactly when its path matches no exclude
\* regex (when excludes is non-empty) and matches some include regex (when
\* includes is non-empty), for every pair of lists, those that start with the
\* empty string included.
C18_FilterKeepsIffPolicy ==
    pPc = "filterDocsExcludeInclude" =>
        (pOut.kept <=>
            /\ Len(pIn.excludes) > 0 =>
                ~\E i \in DOMAIN pIn.excludes : RegExpTest(pIn.excludes[i], pIn.url.path)
            /\ Len(pIn.includes) > 0 =>
                \E i \in DOMAIN pIn.includes : RegExpTest(pIn.includes[i], pIn.url.path))

\* C19: filterDepth admits a document exactly when its depth is at most the
\* depth of the seed plus the configured maxDepth.
C19_DepthRelativeToSeed ==
    pPc = "filterDepth" =>
        (pOut.kept <=>
            getURLDepth(pIn.url) <= getAdjustedMaxDepth(pIn.seed, pIn.maxCrawledDepth))

\* C20: normalizeUrl applied to its own result returns that result, for every
\* url, those with a repeated www. prefix included.
C20_NormalizeIdempotent ==
    pPc = "normalizeUrl twice" => pOut.url = normalizeUrl(pIn.url)

----------------------------------------------------------------------------
(***************************************************************************)
(* WebScraperDataProvider.processLinks, called by handleCrawlMode with the *)
(* crawler's entries: the links that are scraped and the html handed to    *)
(* scrapeSingleUrl for each.  The scrapes are taken in the order of the    *)
(* list; their interleaving is the subject of SpecConvert.                 *)
(***************************************************************************)

Extensions == {"", ".pdf", ".doc", ".docx"}
LinkUrls == [name : 1..MaxLinks, ext : Extensions]
LinkLists ==
    {s \in SeqsUpTo(LinkUrls, MaxLinks) : \A i, j \in DOMAIN s : s[i] = s[j] => i = j}

\* The html the crawler captured when it fetched url
HtmlOf(url) == [of |-> url]
EmptyHTML == [tag |-> "empty"]

LinksInputs == [links : LinkLists, crawlerMode : {"default", "fast"}, captured : BOOLEAN]

\* index.ts:171-183: the entry of a link, its html when one was captured
EntryHtml(in, k) == IF in.captured THEN Val(HtmlOf(in.links[k])) ELSE UndefinedV

\* index.ts:183, 191-195: allHtmls = links.map((e) => e.html), passed in fast
\* mode when some entry has html
PassesAllHtmls(in) ==
    in.crawlerMode = "fast" /\ \E k \in DOMAIN in.links : IsSet(EntryHtml(in, k))

\* link.endsWith(".pdf"); link.endsWith(".doc") || link.endsWith(".docx")
IsPdfLink(link) == link.ext = ".pdf"
IsDocLink(link) == link.ext = ".doc" \/ link.ext = ".docx"

\* index.ts:246-253
FilterLinks(links) ==
    LET pdfLinks == SelectSeq(links, IsPdfLink)
        docLinks == SelectSeq(links, IsDocLink)
        Kept(link) == link \notin RangeOf(pdfLinks) /\ link \notin RangeOf(docLinks)
    IN  SelectSeq(links, Kept)

\* index.ts:47: allHtmls ? allHtmls[i + index] : "", for the k-th url (1-based)
\* of the list given to convertUrlsToDocuments
ExistingHTML(in, k) ==
    IF PassesAllHtmls(in)
    THEN (IF k \in DOMAIN in.links THEN EntryHtml(in, k) ELSE UndefinedV)
    ELSE EmptyHTML

InitLinks ==
    /\ CrawlIdle /\ ScrapeIdle /\ ConvertIdle /\ DocsIdle /\ PolicyIdle /\ RunIdle
    /\ lIn \in LinksInputs
    /\ lPc = "processLinks"
    /\ lOut = [links |-> <<>>, calls |-> <<>>]

\* index.ts:246-256
FilterBinaryLinks ==
    /\ lPc = "processLinks"
    /\ lOut' = [lOut EXCEPT !.links = FilterLinks(lIn.links)]
    /\ lPc' = "scrape"
    /\ UNCHANGED <<notLinks, lIn>>

\* index.ts:46-57: the callback of the next url calls scrapeSingleUrl
ScrapeLink ==
    /\ lPc = "scrape"
    /\ Len(lOut.calls) < Len(lOut.links)
    /\ LET k == Len(lOut.calls) + 1
       IN  lOut' = [lOut EXCEPT !.calls =
                Append(@, [url |-> lOut.links[k], existingHTML |-> ExistingHTML(lIn, k)])]
    /\ UNCHANGED <<notLinks, lIn, lPc>>

\* index.ts:73, 277
ReturnLinkDocuments ==
    /\ lPc = "scrape"
    /\ Len(lOut.calls) = Len(lOut.links)
    /\ lPc' = "returned"
    /\ UNCHANGED <<notLinks, lIn, lOut>>

NextLinks == FilterBinaryLinks \/ ScrapeLink \/ ReturnLinkDocuments

SpecLinks == InitLinks /\ [][NextLinks]_vars

CallsFor(url) == {c \in DOMAIN lOut.calls : lOut.calls[c].url = url}

\* C21: when processLinks returns, every url of its input list, binary
\* document or not, has been processed exactly once.
C21_EveryLinkProcessedOnce ==
    lPc = "returned" =>
        \A k \in DOMAIN lIn.links : Cardinality(CallsFor(lIn.links[k])) = 1

\* C26: in fast crawl mode the existingHTML handed to scrapeSingleUrl for a
\* url is the html of the crawler's entry of that url, also when the list
\* holds .pdf/.doc/.docx links.
C26_ExistingHtmlOfSameUrl ==
    (lIn # <<>> /\ lIn.crawlerMode = "fast" /\ lIn.captured) =>
        \A c \in DOMAIN lOut.calls :
            lOut.calls[c].existingHTML = Val(HtmlOf(lOut.calls[c].url))

----------------------------------------------------------------------------
(* convertUrlsToDocuments: termination, and the order of what it returns *)

\* The event loop runs a continuation that is ready, and a request that was
\* sent settles: some step that is possible is eventually taken
SpecConvertLive == InitConvert /\ [][NextConvert]_vars /\ WF_vars(NextConvert)

\* index.ts:73: results.filter((result) => result !== null)
IsDocument(d) == ~d.isNull
ReturnedDocuments == SelectSeq(cResults, IsDocument)

\* C24: for every list of urls and every concurrentRequests, 0 included,
\* convertUrlsToDocuments terminates (it returns, or throws after a rejected
\* fetch), and when it returns it has called scrapeSingleUrl once for every url.
C24_ConvertTerminates ==
    /\ <>(cPc \in {"returned", "thrown"})
    /\ []((cPc = "returned" /\ ~cIn.returnOnlyUrls) =>
            \A u \in UrlIndexes : cFetch[u] = "done")

\* C27: when convertUrlsToDocuments returns and every fetch yielded a
\* document, the i-th returned document is the result of fetching the i-th
\* url, whatever the order in which the fetches completed.
C27_ResultsInInputOrder ==
    (cPc = "returned" /\ ~cIn.returnOnlyUrls) =>
        /\ Len(ReturnedDocuments) = cIn.n
        /\ \A i \in 1..cIn.n : ReturnedDocuments[i] = DocumentFor(i)

\* The second url completed first, and the documents are in the order of the urls
C27_Witness ==
    /\ cPc = "returned"
    /\ cIn.n = 3 /\ cIn.hasInProgress /\ ~cIn.returnOnlyUrls
    /\ cReports[1].currentDocumentUrl = 2
    /\ cReports[2].currentDocumentUrl = 1
    /\ ReturnedDocuments = <<DocumentFor(1), DocumentFor(2), DocumentFor(3)>>

----------------------------------------------------------------------------
(***************************************************************************)
(* runWebScraper, called by startWebScraperPipeline for one job: the       *)
(* provider's setOptions and getDocuments, the fetches of                  *)
(* convertUrlsToDocuments, and the callbacks onSuccess and onError.        *)
(* A url string is a scheme ("" or "https://") followed by a rest; the     *)
(* job's url is its parts between commas.                                  *)
(***************************************************************************)

MaxParts == 2    \* most comma-separated parts of a job's url

UrlString(scheme, rest) == [scheme |-> scheme, rest |-> rest]
Blank == "   "
UrlStrings ==
    {UrlString("", ""), UrlString("", Blank), UrlString("", "ex.com/1"),
     UrlString("https://", "ex.com/1"), UrlString("https://", "ex.com/2")}

\* String.prototype.trim, startsWith("http"), === ""
Trim(u) == [u EXCEPT !.rest = IF @ = Blank THEN "" ELSE @]
StartsWithHttp(u) == u.scheme = "https://"
IsEmptyString(u) == u.scheme = "" /\ u.rest = ""

RunModes == {"crawl", "single_urls", "sitemap"}
\* Where an error is raised besides the url and the fetches: nowhere, in the
\* discovery of links inside getDocuments, or in the onSuccess callback
Faults == {"none", "getDocuments", "onSuccess"}

Error(message) == [message |-> message]

\* runWebScraper.ts:82-107: urls is [url] in crawl mode and url.split(",")
\* otherwise; an undefined url makes split (99) or trim (index.ts:496) throw
UrlsOf(in) == in.url.v

\* index.ts:495-500
setOptionsUrls(urls) ==
    [k \in DOMAIN urls |->
        IF StartsWithHttp(Trim(urls[k])) THEN urls[k]
        ELSE UrlString("https://", urls[k].rest)]

\* index.ts:88-92
validateInitialUrl(urls) == ~IsEmptyString(Trim(urls[1]))

NoCalls ==
    [onSuccess |-> 0, onError |-> 0, moveToFailed |-> 0, raised |-> <<>>,
     reportsAtFailure |-> 0]

\* convertUrlsToDocuments has not been called
ConvertNotCalled ==
    /\ cIn = [n |-> 0, concurrentRequests |-> UndefinedV, hasInProgress |-> TRUE,
              returnOnlyUrls |-> FALSE]
    /\ cPc = "idle" /\ cI = 0 /\ cFetch = <<>>
    /\ cProcessed = 0 /\ cReports = <<>> /\ cResults = <<>>

InitRun ==
    /\ CrawlIdle /\ ScrapeIdle /\ DocsIdle /\ PolicyIdle /\ LinksIdle
    /\ ConvertNotCalled
    /\ \/ \E m \in RunModes, f \in Faults :
            rIn = [url |-> UndefinedV, mode |-> m, fault |-> f]
       \/ \E m \in RunModes, f \in Faults, parts \in SeqsUpTo(UrlStrings, MaxParts) :
            /\ Len(parts) >= 1
            /\ m = "crawl" => Len(parts) = 1
            /\ rIn = [url |-> Val(parts), mode |-> m, fault |-> f]
    /\ rPc = "setOptions"
    /\ rUrls = <<>>
    /\ rCalls = NoCalls
    /\ rResult = <<>>

RunResult(success, message, docs) == [success |-> success, message |-> message, docs |-> docs]

\* runWebScraper.ts:49-52: onError logs and calls job.moveToFailed
onError(calls) ==
    [calls EXCEPT !.onError = @ + 1, !.moveToFailed = @ + 1]

\* runWebScraper.ts:134-137: the catch block of runWebScraper, entered with
\* the error a statement of the try block raised
Catch_Rethrows(calls, error) ==
    /\ rCalls' = [calls EXCEPT !.raised = Append(@, error.message)]
    /\ rResult' = rResult
    /\ rPc' = "thrown"
Catch(calls, error) ==
    /\ rCalls' = [onError(calls) EXCEPT !.raised = Append(@, error.message),
                                        !.reportsAtFailure = Len(cReports)]
    /\ rResult' = RunResult(FALSE, error.message, <<>>)
    /\ rPc' = "returned"

\* runWebScraper.ts:81-107
SetOptions ==
    /\ rPc = "setOptions"
    /\ IF ~IsSet(rIn.url)
       THEN /\ Catch(rCalls, Error("Cannot read properties of undefined"))
            /\ UNCHANGED rUrls
       ELSE /\ rUrls' = setOptionsUrls(UrlsOf(rIn))
            /\ rPc' = "getDocuments"
            /\ UNCHANGED <<rCalls, rResult>>
    /\ UNCHANGED <<notRun, rIn>>

\* runWebScraper.ts:108, index.ts:76-112, 200-256: validateInitialUrl, the
\* links of the mode, and the entry of convertUrlsToDocuments (index.ts:39-42)
GetDocumentsCall ==
    /\ rPc = "getDocuments"
    /\ IF ~validateInitialUrl(rUrls)
       THEN Catch(rCalls, Error("Url is required")) /\ UNCHANGED convertVars
       ELSE IF rIn.fault = "getDocuments"
       THEN Catch(rCalls, Error("link discovery failed")) /\ UNCHANGED convertVars
       ELSE /\ \E n \in (IF rIn.mode = "single_urls" THEN {Len(rUrls)} ELSE 0..MaxUrls) :
                /\ cIn' = [cIn EXCEPT !.n = n]
                /\ cFetch' = [u \in 1..n |-> "pending"]
                /\ cResults' = [u \in 1..n |-> NoDocument]
            /\ cPc' = "loop"
            /\ rPc' = "awaitDocuments"
            /\ UNCHANGED <<cI, cProcessed, cReports, rCalls, rResult>>
    /\ UNCHANGED <<notRunConvert, rIn, rUrls>>

\* runWebScraper.ts:108-118: getDocuments resolves
DocumentsReturned_NoEmptyCheck ==
    /\ rPc = "awaitDocuments"
    /\ cPc = "returned"
    /\ rPc' = "onSuccess"
    /\ UNCHANGED <<notRun, rIn, rUrls, rCalls, rResult>>
DocumentsReturned ==
    /\ rPc = "awaitDocuments"
    /\ cPc = "returned"
    /\ IF Len(ReturnedDocuments) = 0
       THEN /\ rResult' = RunResult(TRUE, "No pages found", <<>>)
            /\ rPc' = "returned"
       ELSE /\ rPc' = "onSuccess"
            /\ UNCHANGED rResult
    /\ UNCHANGED <<notRun, rIn, rUrls, rCalls>>

\* runWebScraper.ts:108, 134: getDocuments rejects with the error of a fetch
DocumentsRejected ==
    /\ rPc = "awaitDocuments"
    /\ cPc = "thrown"
    /\ Catch(rCalls, Error("scrape failed"))
    /\ UNCHANGED <<notRun, rIn, rUrls>>

\* runWebScraper.ts:121-133
OnSuccess ==
    /\ rPc = "onSuccess"
    /\ IF rIn.fault = "onSuccess"
       THEN Catch([rCalls EXCEPT !.onSuccess = @ + 1], Error("onSuccess failed"))
       ELSE /\ rCalls' = [rCalls EXCEPT !.onSuccess = @ + 1]
            /\ rResult' = RunResult(TRUE, "", ReturnedDocuments)
            /\ rPc' = "returned"
    /\ UNCHANGED <<notRun, rIn, rUrls>>

NextRun ==
    \/ SetOptions
    \/ GetDocumentsCall
    \/ StartBatch
    \/ \E u \in UrlIndexes : CompleteFetch(u)
    \/ \E u \in UrlIndexes : RejectFetch(u)
    \/ FinishBatch
    \/ ReturnDocuments
    \/ DocumentsReturned
    \/ DocumentsRejected
    \/ OnSuccess

SpecRun == InitRun /\ [][NextRun]_vars

\* The url of the job is empty or only whitespace
BlankUrl ==
    /\ IsSet(rIn.url)
    /\ Len(UrlsOf(rIn)) = 1
    /\ IsEmptyString(Trim(UrlsOf(rIn)[1]))

DocumentsResolved == cPc = "returned" /\ rPc \in {"onSuccess", "returned"}

\* C22: an error raised in setOptions, getDocuments or onSuccess never leaves
\* runWebScraper as an exception: in the step that raises it onError is
\* called once, job.moveToFailed is called once, and runWebScraper returns
\* {success: false, message: the error's message, docs: []}.
C22_ErrorsReportedOnce ==
    /\ rPc # "thrown"
    /\ Len(rCalls.raised) <= 1
    /\ rCalls.onError = Len(rCalls.raised)
    /\ rCalls.moveToFailed = Len(rCalls.raised)
    /\ rCalls.raised # <<>> =>
        /\ rPc = "returned"
        /\ rResult = RunResult(FALSE, rCalls.raised[1], <<>>)

\* onSuccess threw after the documents were fetched
C22_Witness ==
    /\ rPc = "returned"
    /\ rIn.fault = "onSuccess"
    /\ rCalls.onSuccess = 1 /\ rCalls.onError = 1 /\ rCalls.moveToFailed = 1
    /\ rResult = RunResult(FALSE, "onSuccess failed", <<>>)

\* C23: a job whose url is empty or only whitespace starts no fetch, and
\* runWebScraper returns success false with "Url is required" after one call
\* of onError (no other error being raised in the run).
C23_BlankUrlRejected ==
    (BlankUrl /\ rIn.fault = "none") =>
        /\ Started = {}
        /\ rPc = "returned" =>
            /\ rResult.success = FALSE
            /\ rResult.message = "Url is required"
            /\ rCalls.onError = 1

\* C25: once onError was called for the job, no further progress report is
\* delivered: the reports stay those delivered when onError was called, also
\* when the failure was one rejected fetch of a batch.
C25_NoProgressAfterFailure ==
    rCalls.onError > 0 => Len(cReports) = rCalls.reportsAtFailure

\* C28: onSuccess is called at most once and only after getDocuments returned
\* a document; when it returned none, no callback is called and the result is
\* {success: true, message: "No pages found", docs: []}; onSuccess and onError
\* are both called only when onSuccess threw.
C28_CallbacksMatchOutcome ==
    /\ rCalls.onSuccess <= 1
    /\ rCalls.onSuccess = 1 => (DocumentsResolved /\ Len(ReturnedDocuments) >= 1)
    /\ (rPc = "returned" /\ DocumentsResolved /\ Len(ReturnedDocuments) = 0) =>
        /\ rCalls.onSuccess = 0 /\ rCalls.onError = 0
        /\ rResult = RunResult(TRUE, "No pages found", <<>>)
    /\ (rCalls.onSuccess > 0 /\ rCalls.onError > 0) =>
        (rIn.fault = "onSuccess" /\ rCalls.raised = <<"onSuccess failed">>)

\* The crawl found no page
C28_Witness ==
    /\ rPc = "returned"
    /\ cPc = "returned" /\ cIn.n = 0
    /\ rCalls.onSuccess = 0 /\ rCalls.onError = 0
    /\ rResult = RunResult(TRUE, "No pages found", <<>>)

====
